---- MODULE Spec2Model ----
(***************************************************************************)
(* A model of bloom_filter.BloomFilter (src/src/bloom_filter/__init__.py). *)
(*                                                                         *)
(* Python values are records [type, val].  A float is held in thousandths  *)
(* (val = 500 is 0.5); the results of math.log and math.exp are held in    *)
(* fixed point with unit 1/Scale.  TLC integers are 32 bits wide, so every *)
(* product that may exceed them goes through MulDivQR.                     *)
(***************************************************************************)
EXTENDS Integers, FiniteSets, Sequences, TLC

\* ------------------------------------------------------------ bounds

\* The builtin hash returns a signed integer; the model draws it from
\* -MaxHash..MaxHash.
MaxHash == 1

\* The integer arguments tried for n are -1..MaxN.
MaxN == 3

\* The constructor alone is swept over n in 0..MaxSweepN and every fpr in
\* thousandths from 0 to 1.
MaxSweepN == 4

\* ------------------------------------------------------------ Python values

PyInt(i) == [type |-> "int", val |-> i]

\* t is the value in thousandths.
PyFloat(t) == [type |-> "float", val |-> t]

PyBool(b) == [type |-> "bool", val |-> IF b THEN 1 ELSE 0]

PyStr == [type |-> "str", val |-> 0]

PyNone == [type |-> "NoneType", val |-> 0]

\* The value of a variable that stands for an attribute not yet assigned.
Unset == [type |-> "unset", val |-> 0]

\* Thousandths in one unit of a float.
Milli == 10 * 100

IsNumber(v) == v.type \in {"int", "bool", "float"}

\* The numeric value of v in thousandths.
InMilli(v) == IF v.type = "float" THEN v.val ELSE v.val * Milli

\* isinstance(v, int): bool is a subclass of int.
IsInstanceInt(v) == v.type \in {"int", "bool"}

IsInstanceFloat(v) == v.type = "float"

\* ------------------------------------------------------------ arithmetic

\* The fixed-point unit of logarithms and exponentials: 1/Scale.
Scale == 10 ^ 7

\* The radix of the digits MulDivQR takes a by.
Radix == 2 ^ 6

\* <<q, r>> with a*b = q*c + r and 0 <= r < c, for a, b >= 0 and c > 0,
\* computed digit by digit so that no intermediate value exceeds
\* 2*Radix*c (c is at most Scale wherever it is used).
RECURSIVE MulDivQR(_, _, _)
MulDivQR(a, b, c) ==
    IF a = 0 THEN <<0, 0>>
    ELSE LET h   == MulDivQR(a \div Radix, b, c)
             d   == a % Radix
             tot == Radix * h[2] + d * (b % c)
         IN  <<Radix * h[1] + d * (b \div c) + (tot \div c), tot % c>>

\* floor(a*b/c)
MulDiv(a, b, c) == MulDivQR(a, b, c)[1]

\* ceil(a*b/c): math.ceil of the quotient
MulDivCeil(a, b, c) ==
    LET qr == MulDivQR(a, b, c) IN IF qr[2] = 0 THEN qr[1] ELSE qr[1] + 1

\* The product of two fixed-point numbers.
FMul(a, b) == MulDiv(a, b, Scale)

\* math.log(2), in units of 1/Scale.
Ln2 == 6931472

\* The series 2*(z + z^3/3 + z^5/5 + ...) for 2*atanh(z), z in fixed point,
\* term is z^j; it stops when the term vanishes.
RECURSIVE AtanhSeries(_, _, _)
AtanhSeries(term, zsq, j) ==
    IF term = 0 THEN 0
    ELSE 2 * (term \div j) + AtanhSeries(FMul(term, zsq), zsq, j + 2)

\* ln(r/d) for d <= r < 2*d, in fixed point: 2*atanh((r - d)/(r + d)).
LnMantissa(r, d) ==
    LET z == MulDiv(r - d, Scale, r + d) IN
      IF z = 0 THEN 0 ELSE AtanhSeries(z, FMul(z, z), 1)

\* The largest e with t * 2^e <= Milli, for 0 < t <= Milli.
RECURSIVE Exponent(_)
Exponent(t) == IF 2 * t <= Milli THEN 1 + Exponent(2 * t) ELSE 0

\* -math.log(x) for a float x = t/1000 with 0 < x < 1, in fixed point:
\* 1/x = 2^e * r with 1 <= r < 2, and ln(1/x) = e*ln 2 + ln r.
NegLog(t) ==
    LET e == Exponent(t) IN
      IF e = 0 THEN LnMantissa(Milli, t)
      ELSE e * Ln2 + LnMantissa(Milli, t * 2 ^ e)

\* The Taylor polynomial of exp(-x) for a fixed-point x <= 1/8, by Horner's
\* rule from the term of degree j on: 1 - x/j * (1 - x/(j+1) * (...)).
RECURSIVE ExpNegSeries(_, _)
ExpNegSeries(x, j) ==
    IF j > 6 THEN Scale
    ELSE LET inner == ExpNegSeries(x, j + 1) IN
           IF inner = 0 THEN Scale ELSE Scale - (FMul(x, inner) \div j)

\* math.exp(-x) for a fixed-point x >= 0: the Taylor polynomial up to 1/8,
\* the square of exp(-x/2) above.
RECURSIVE ExpNeg(_)
ExpNeg(x) ==
    IF x > Scale \div 8
    THEN LET h == ExpNeg(x \div 2) IN IF h = 0 THEN 0 ELSE FMul(h, h)
    ELSE ExpNegSeries(x, 1)

\* b ** e for a fixed-point b and an integer e >= 0.
RECURSIVE FPow(_, _)
FPow(b, e) ==
    IF e = 0 THEN Scale
    ELSE LET p == FPow(b, e - 1) IN IF p = 0 THEN 0 ELSE FMul(b, p)

\* ------------------------------------------------------------ inputs

\* The elements offered to add and to the membership test.
Elements == {"item1", "item2"}

\* The values the builtin hash may return.
HashVals == (-MaxHash)..MaxHash

\* The arguments tried for n: integers, floats, booleans, a string, None.
NInputs ==
    {PyInt(i) : i \in (-1)..MaxN}
        \cup {PyFloat(1500), PyFloat(2000), PyBool(TRUE), PyBool(FALSE), PyStr, PyNone}

\* The arguments tried for fpr.
FprInputs ==
    {PyFloat(t) : t \in {-100, 0, 100, 500, 800, 1000, 1500}}
        \cup {PyInt(0), PyInt(1), PyStr, PyNone}

\* ------------------------------------------------------------ state

VARIABLES
    pc,        \* "new": before the constructor; "ready": a filter exists;
               \* "failed": the constructor raised
    err,       \* the exception the last call raised, or "none"
    attrs,     \* the names of the attributes assigned on the object
    n,         \* self.n
    fpr,       \* self.fpr
    m,         \* self.m
    k,         \* self.k
    true_fpr,  \* self.true_fpr, in units of 1/Scale
    bits,      \* self._bits, indexed from 0
    hash1,     \* hash(x) of the builtin, fixed for the process
    hash2,     \* hash((x, "salt")) of the builtin
    last,      \* the last call made: [op, arg, ret]
    added      \* history: the elements passed to add so far

vars == <<pc, err, attrs, n, fpr, m, k, true_fpr, bits, hash1, hash2, last, added>>

AllAttrs == {"n", "fpr", "m", "k", "true_fpr", "_bits"}

AssignedWithBits == {"n", "fpr", "_bits"}

\* The attributes __init__ assigns before it validates.
AssignedBeforeValidation == {"n", "fpr"}

\* ------------------------------------------------------------ constructor

\* The exception _validate_constructor_args raises, or "none".  Comparing a
\* str or None with a number raises TypeError, and each `or` evaluates the
\* comparison before the isinstance test.
ValidateConstructorArgs(nv, fv) ==
    IF ~IsNumber(nv) THEN "TypeError"
    ELSE IF InMilli(nv) <= 0 \/ ~IsInstanceInt(nv) THEN "ValueError"
    ELSE IF ~IsNumber(fv) THEN "TypeError"
    ELSE IF ~(0 < InMilli(fv) /\ InMilli(fv) < Milli) \/ ~IsInstanceFloat(fv)
         THEN "ValueError"
    ELSE "none"

\* math.log(2) ** 2
Ln2Squared == FMul(Ln2, Ln2)

\* The size with ln 2 for (ln 2)^2.
DeriveMLn2(nv, t) == MulDivCeil(nv, NegLog(t), Ln2)

\* math.ceil(-n * math.log(fpr) / math.log(2) ** 2), t = fpr in thousandths
DeriveM(nv, t) == MulDivCeil(nv, NegLog(t), Ln2Squared)

DeriveKFloor(mv, nv) == FMul(MulDiv(mv, Scale, nv), Ln2) \div Scale

\* math.ceil((m / n) * math.log(2))
DeriveK(mv, nv) == (FMul(MulDiv(mv, Scale, nv), Ln2) + Scale - 1) \div Scale

\* The rate without the power of k.
TrueFprNoPower(nv, mv, kv) == Scale - ExpNeg(MulDiv(kv * nv, Scale, mv))

\* (1 - math.exp(-k * n / m)) ** k
TrueFpr(nv, mv, kv) ==
    LET miss == ExpNeg(MulDiv(kv * nv, Scale, mv)) IN
      IF miss = Scale THEN FPow(0, kv) ELSE FPow(Scale - miss, kv)

InitialBitsTrue(mv) == [i \in 0..(mv - 1) |-> TRUE]

\* [False] * m
InitialBits(mv) == [i \in 0..(mv - 1) |-> FALSE]

\* The constructor, called with n0 and fpr0.  self.n and self.fpr are
\* assigned first; a failed validation leaves the object with these two.
Construct(n0, fpr0) ==
    /\ pc = "new"
    /\ n' = n0
    /\ fpr' = fpr0
    /\ LET e == ValidateConstructorArgs(n0, fpr0) IN
         IF e # "none"
         THEN /\ pc' = "failed"
              /\ err' = e
              /\ attrs' = AssignedBeforeValidation
              /\ UNCHANGED <<m, k, true_fpr, bits>>
         ELSE LET mv == DeriveM(n0.val, fpr0.val)
                  kv == DeriveK(mv, n0.val)
              IN  /\ pc' = "ready"
                  /\ err' = "none"
                  /\ m' = mv
                  /\ k' = kv
                  /\ true_fpr' = TrueFpr(n0.val, mv, kv)
                  /\ bits' = InitialBits(mv)
                  /\ attrs' = AllAttrs
    /\ last' = [op |-> "construct", arg |-> "none", ret |-> "None"]
    /\ UNCHANGED <<hash1, hash2, added>>

\* ------------------------------------------------------------ hashing

\* The remainder that takes the sign of the dividend.
TruncRem(a, b) == IF a >= 0 THEN a % b ELSE -((-a) % b)

\* _hash with the remainder of the dividend's sign.
_hashTruncRem(x, i) ==
    IF i < 0 \/ i >= k
    THEN [err |-> "ValueError", val |-> 0]
    ELSE LET h1 == TruncRem(hash1[x], m)
             h2 == TruncRem(hash2[x], m)
         IN  [err |-> "none", val |-> TruncRem(h1 + i * h2, m)]

\* _hash that accepts the index k.
_hashAcceptsK(x, i) ==
    IF i < 0 \/ i > k
    THEN [err |-> "ValueError", val |-> 0]
    ELSE LET h1 == hash1[x] % m
             h2 == hash2[x] % m
         IN  [err |-> "none", val |-> (h1 + i * h2) % m]

\* _hash(x, i): [err, val].  Python's % takes the sign of the divisor, as
\* TLA+'s does for a positive divisor.
_hash(x, i) ==
    IF i < 0 \/ i >= k
    THEN [err |-> "ValueError", val |-> 0]
    ELSE LET h1 == hash1[x] % m
             h2 == hash2[x] % m
         IN  [err |-> "none", val |-> (h1 + i * h2) % m]

\* A list index is valid in -len..len-1; a negative one counts from the end.
ValidIndex(b, idx) == -Cardinality(DOMAIN b) <= idx /\ idx < Cardinality(DOMAIN b)

ListIndex(b, idx) == IF idx < 0 THEN idx + Cardinality(DOMAIN b) ELSE idx

\* ------------------------------------------------------------ add

\* add with range(k + 1) for range(k).
RECURSIVE AddLoopOneMore(_, _, _)
AddLoopOneMore(b, x, i) ==
    IF i >= k + 1 THEN [bits |-> b, err |-> "none"]
    ELSE LET h == _hash(x, i) IN
         IF h.err # "none" THEN [bits |-> b, err |-> h.err]
         ELSE AddLoopOneMore([b EXCEPT ![h.val] = TRUE], x, i + 1)

\* add with range(k - 1) for range(k).
RECURSIVE AddLoopSkipsLast(_, _, _)
AddLoopSkipsLast(b, x, i) ==
    IF i >= k - 1 THEN [bits |-> b, err |-> "none"]
    ELSE AddLoopSkipsLast([b EXCEPT ![_hash(x, i).val] = TRUE], x, i + 1)

\* add that flips each bit it reaches.
RECURSIVE AddLoopToggle(_, _, _)
AddLoopToggle(b, x, i) ==
    IF i >= k THEN [bits |-> b, err |-> "none"]
    ELSE AddLoopToggle([b EXCEPT ![_hash(x, i).val] = ~b[_hash(x, i).val]], x, i + 1)

\* add that starts from a cleared list.
RECURSIVE AddLoopClearsOthers(_, _, _)
AddLoopClearsOthers(b, x, i) ==
    IF i >= k THEN [bits |-> b, err |-> "none"]
    ELSE AddLoopClearsOthers(
             [(IF i = 0 THEN InitialBits(m) ELSE b) EXCEPT ![_hash(x, i).val] = TRUE],
             x, i + 1)

\* add that appends a flag for setting one.
RECURSIVE AddLoopAppends(_, _, _)
AddLoopAppends(b, x, i) ==
    IF i >= k THEN [bits |-> b, err |-> "none"]
    ELSE AddLoopAppends(
             [j \in 0..Cardinality(DOMAIN b) |->
                 IF j \in DOMAIN b THEN b[j] ELSE TRUE],
             x, i + 1)

\* The loop of add from hash_i = i on, over the list b: [bits, err].
RECURSIVE AddLoop(_, _, _)
AddLoop(b, x, i) ==
    IF i >= k THEN [bits |-> b, err |-> "none"]
    ELSE LET h == _hash(x, i) IN
         IF h.err # "none" THEN [bits |-> b, err |-> h.err]
         ELSE IF ~ValidIndex(b, h.val) THEN [bits |-> b, err |-> "IndexError"]
         ELSE AddLoop([b EXCEPT ![ListIndex(b, h.val)] = TRUE], x, i + 1)

Add(x) ==
    /\ pc = "ready"
    /\ LET r == AddLoop(bits, x, 0) IN
         /\ bits' = r.bits
         /\ err' = r.err
    /\ last' = [op |-> "add", arg |-> x, ret |-> "None"]
    /\ added' = added \cup {x}
    /\ UNCHANGED <<pc, attrs, n, fpr, m, k, true_fpr, hash1, hash2>>

\* ------------------------------------------------------------ contains

\* any(...) for all(...).
RECURSIVE ContainsLoopAny(_, _, _)
ContainsLoopAny(b, x, i) ==
    IF i >= k THEN [ret |-> FALSE, err |-> "none"]
    ELSE IF b[_hash(x, i).val] THEN [ret |-> TRUE, err |-> "none"]
    ELSE ContainsLoopAny(b, x, i + 1)

\* all(...) from hash_i = i on, over the list b: [ret, err].  all stops at
\* the first false item.
RECURSIVE ContainsLoop(_, _, _)
ContainsLoop(b, x, i) ==
    IF i >= k THEN [ret |-> TRUE, err |-> "none"]
    ELSE LET h == _hash(x, i) IN
         IF h.err # "none" THEN [ret |-> FALSE, err |-> h.err]
         ELSE IF ~ValidIndex(b, h.val) THEN [ret |-> FALSE, err |-> "IndexError"]
         ELSE IF ~b[ListIndex(b, h.val)] THEN [ret |-> FALSE, err |-> "none"]
         ELSE ContainsLoop(b, x, i + 1)

\* What `x in filter` evaluates to in the current state.
InFilter(x) ==
    LET r == ContainsLoop(bits, x, 0) IN r.err = "none" /\ r.ret

PyRepr(b) == IF b THEN "True" ELSE "False"

\* A membership test that marks the element as it tests it.
ContainsMarks(x) ==
    /\ pc = "ready"
    /\ LET r == ContainsLoop(bits, x, 0) IN
         /\ err' = r.err
         /\ last' = [op |-> "contains", arg |-> x,
                     ret |-> IF r.err = "none" THEN PyRepr(r.ret) ELSE "None"]
    /\ bits' = [bits EXCEPT ![_hash(x, 0).val] = TRUE]
    /\ UNCHANGED <<pc, attrs, n, fpr, m, k, true_fpr, hash1, hash2, added>>

Contains(x) ==
    /\ pc = "ready"
    /\ LET r == ContainsLoop(bits, x, 0) IN
         /\ err' = r.err
         /\ last' = [op |-> "contains", arg |-> x,
                     ret |-> IF r.err = "none" THEN PyRepr(r.ret) ELSE "None"]
    /\ UNCHANGED <<pc, attrs, n, fpr, m, k, true_fpr, bits, hash1, hash2, added>>

\* ------------------------------------------------------------ specification

Init ==
    /\ pc = "new"
    /\ err = "none"
    /\ attrs = {}
    /\ n = Unset
    /\ fpr = Unset
    /\ m = 0
    /\ k = 0
    /\ true_fpr = 0
    /\ bits = <<>>
    /\ hash1 \in [Elements -> HashVals]
    /\ hash2 \in [Elements -> HashVals]
    /\ last = [op |-> "none", arg |-> "none", ret |-> "None"]
    /\ added = {}

Next ==
    \/ \E n0 \in NInputs, fpr0 \in FprInputs : Construct(n0, fpr0)
    \/ \E x \in Elements : Add(x)
    \/ \E x \in Elements : Contains(x)

Spec == Init /\ [][Next]_vars

\* The constructor alone, over a sweep of its arguments; the builtin hash
\* plays no part in it.
SweepN == {PyInt(i) : i \in 0..MaxSweepN}

SweepFpr == {PyFloat(t) : t \in 0..Milli}

ConstructInit ==
    /\ Init
    /\ hash1 = [x \in Elements |-> 0]
    /\ hash2 = [x \in Elements |-> 0]

\* The arguments of test_initialization_parameters.
RegressionArgs ==
    {<<PyInt(100), PyFloat(10)>>, <<PyInt(1000), PyFloat(10)>>,
     <<PyInt(10000), PyFloat(1)>>, <<PyInt(10), PyFloat(500)>>}

ConstructNext ==
    \/ \E n0 \in SweepN, fpr0 \in SweepFpr : Construct(n0, fpr0)
    \/ \E a \in RegressionArgs : Construct(a[1], a[2])

ConstructSpec == ConstructInit /\ [][ConstructNext]_vars

\* A direct call of the internal _hash(x, i), with an index from one below
\* the range to one above it.
HashCall(x, i) ==
    /\ pc = "ready"
    /\ LET h == _hash(x, i) IN
         /\ err' = h.err
         /\ last' = [op |-> "_hash", arg |-> x, i |-> i,
                     ret |-> IF h.err = "none" THEN ToString(h.val) ELSE "None"]
    /\ UNCHANGED <<pc, attrs, n, fpr, m, k, true_fpr, bits, hash1, hash2, added>>

HashNext ==
    \/ \E n0 \in NInputs, fpr0 \in FprInputs : Construct(n0, fpr0)
    \/ \E x \in Elements : Add(x)
    \/ \E x \in Elements, i \in (-1)..(k + 1) : HashCall(x, i)

HashSpec == Init /\ [][HashNext]_vars

\* ------------------------------------------------------------ properties

\* C1: every element passed to add so far is in the filter, and a membership
\* test of such an element returned True.
NoFalseNegatives ==
    pc = "ready" =>
        /\ \A x \in added : InFilter(x)
        /\ (last.op = "contains" /\ last.arg \in added) => last.ret = "True"

\* Two elements were added and a test of one of them has returned.
NoFalseNegativesWitness ==
    /\ pc = "ready"
    /\ added = Elements
    /\ last.op = "contains"
    /\ last.ret = "True"
    /\ \E i \in DOMAIN bits : ~bits[i]

\* n is a positive integer, as isinstance(n, int) understands it.
IsPositiveInteger(v) == IsInstanceInt(v) /\ v.val > 0

\* fpr is a float strictly between 0 and 1.
IsFloatInUnitInterval(v) == IsInstanceFloat(v) /\ 0 < v.val /\ v.val < Milli

\* C2: the constructor raises ValueError when n is not a positive integer or
\* fpr is not a float strictly between 0 and 1, and succeeds otherwise.
ConstructionRaisesValueError ==
    pc # "new" =>
        IF IsPositiveInteger(n) /\ IsFloatInUnitInterval(fpr)
        THEN pc = "ready" /\ err = "none"
        ELSE pc = "failed" /\ err = "ValueError"

\* C3 as stated: a failed construction has assigned no attribute.
NoAttributeOnFailure == pc = "failed" => attrs = {}

\* C3 as amended: a failed construction has assigned n and fpr, the arguments
\* as passed, and no derived attribute (m, k, true_fpr, _bits).
OnlyArgsOnFailure ==
    pc = "failed" =>
        /\ attrs = {"n", "fpr"}
        /\ n \in NInputs /\ fpr \in FprInputs
        /\ m = 0 /\ k = 0 /\ true_fpr = 0 /\ bits = <<>>

\* The constructor raised on an argument of the right type.
OnlyArgsOnFailureWitness ==
    /\ pc = "failed"
    /\ err = "ValueError"
    /\ n = PyInt(0)
    /\ fpr = PyFloat(500)

\* C4: no step changes a bit from true to false.
BitsMonotonic ==
    [][\A i \in DOMAIN bits : bits[i] => (i \in DOMAIN bits' /\ bits'[i])]_vars

\* Both elements were added and some bit is still unset.
BitsMonotonicWitness ==
    /\ pc = "ready"
    /\ added = Elements
    /\ last.op = "add"
    /\ Cardinality({i \in DOMAIN bits : bits[i]}) >= 2
    /\ \E i \in DOMAIN bits : ~bits[i]

\* C5: an element that is in the filter is in the filter after every step.
MembershipMonotonic ==
    [][\A x \in Elements : (pc = "ready" /\ InFilter(x)) => InFilter(x)']_vars

\* A test of an element that was never added returned True while some bit
\* was still unset.
MembershipMonotonicWitness ==
    /\ pc = "ready"
    /\ last.op = "contains"
    /\ last.arg \notin added
    /\ last.ret = "True"
    /\ \E i \in DOMAIN bits : ~bits[i]

\* C6: an add of the element the previous call added leaves the bits as
\* they are.
AddIdempotent ==
    [][(last.op = "add" /\ last'.op = "add" /\ last'.arg = last.arg)
          => bits' = bits]_vars

\* An add has returned in a filter of several bits of which it set some.
AddIdempotentWitness ==
    /\ pc = "ready"
    /\ last.op = "add"
    /\ added = {last.arg}
    /\ \E i \in DOMAIN bits : bits[i]
    /\ \E i \in DOMAIN bits : ~bits[i]

\* C7: a membership test changes no attribute of the filter, and a test that
\* follows a test of the same element returns what that one returned.
ContainsIsPure ==
    [][(pc = "ready" /\ last'.op = "contains") =>
          /\ UNCHANGED <<pc, attrs, n, fpr, m, k, true_fpr, bits, hash1, hash2>>
          /\ (last.op = "contains" /\ last.arg = last'.arg) => last'.ret = last.ret]_vars

\* A test returned False in a filter that holds an element.
ContainsIsPureWitness ==
    /\ pc = "ready"
    /\ last.op = "contains"
    /\ last.ret = "False"
    /\ added # {}

\* C8: until the first add every bit is false and every element is reported
\* absent.
FreshFilterEmpty ==
    (pc = "ready" /\ added = {}) =>
        /\ DOMAIN bits # {}
        /\ \A i \in DOMAIN bits : ~bits[i]
        /\ \A x \in Elements : ~InFilter(x)
        /\ last.op = "contains" => last.ret = "False"

\* A test has returned in a filter nothing was added to.
FreshFilterEmptyWitness ==
    /\ pc = "ready"
    /\ added = {}
    /\ last.op = "contains"
    /\ last.ret = "False"

\* C9: a constructor called with a positive integer n and a float fpr
\* strictly between 0 and 1 returns a filter with m > 0 and k >= 1.
ParametersPositive ==
    (pc # "new" /\ IsPositiveInteger(n) /\ IsFloatInUnitInterval(fpr)) =>
        /\ pc = "ready"
        /\ m > 0
        /\ k >= 1

\* The largest n with the largest fpr: one bit, one hash function.
ParametersPositiveWitness ==
    /\ pc = "ready"
    /\ n = PyInt(MaxSweepN)
    /\ fpr = PyFloat(Milli - 1)
    /\ m = 1
    /\ k = 1

\* C10: no call on a filter changes n, fpr, m, k or true_fpr, and the list
\* of bits has length m.
ParametersImmutable ==
    [][/\ pc = "ready" => UNCHANGED <<n, fpr, m, k, true_fpr>>
       /\ pc' = "ready" => DOMAIN bits' = 0..(m' - 1)]_vars

\* Adds and a test have run on a filter of more than one bit.
ParametersImmutableWitness ==
    /\ pc = "ready"
    /\ added = Elements
    /\ last.op = "contains"
    /\ m > 1

\* n is small enough for n * -ln(fpr) to be formed in 32 bits.
ProductFits(nv) == nv <= (2 ^ 30) \div NegLog(1)

\* -n * ln(fpr) / (ln 2)^2 lies in (mv - 1, mv]: mv is its ceiling.
IsCeilOfSize(mv, nv, t) ==
    /\ (mv - 1) * Ln2Squared < nv * NegLog(t)
    /\ nv * NegLog(t) <= mv * Ln2Squared

\* (m / n) * ln 2 lies in (kv - 1, kv]: kv is its ceiling.
IsCeilOfCount(kv, mv, nv) ==
    /\ (kv - 1) * Scale < FMul(MulDiv(mv, Scale, nv), Ln2)
    /\ FMul(MulDiv(mv, Scale, nv), Ln2) <= kv * Scale

\* What test_initialization_parameters expects of (n, fpr in thousandths).
ExpectedParameters(nv, t) ==
    CASE nv = 100 /\ t = 10 -> <<959, 7>>
      [] nv = 1000 /\ t = 10 -> <<9586, 7>>
      [] nv = 10000 /\ t = 1 -> <<143776, 10>>
      [] nv = 10 /\ t = 500 -> <<15, 2>>
      [] OTHER -> <<m, k>>

\* C11: the constructor sets m to the ceiling of -n*ln(fpr)/(ln 2)^2 and k
\* to the ceiling of (m/n)*ln 2, and gives the sizes of the regression table.
DerivationExact ==
    pc = "ready" =>
        /\ <<m, k>> = ExpectedParameters(n.val, fpr.val)
        /\ ProductFits(n.val) => IsCeilOfSize(m, n.val, fpr.val)
        /\ IsCeilOfCount(k, m, n.val)

\* The first filter of the regression table was constructed.
DerivationExactWitness ==
    /\ pc = "ready"
    /\ n = PyInt(100)
    /\ fpr = PyFloat(10)
    /\ m = 959
    /\ k = 7
    /\ DOMAIN bits = 0..958

\* fpr, a float in thousandths, in units of 1/Scale.
TargetFpr == fpr.val * (Scale \div Milli)

Positions(x) == {_hash(x, i).val : i \in 0..(k - 1)}

\* The positions of the elements added so far.
AddedPositions == UNION {Positions(y) : y \in added}

\* C13: an element is in the filter exactly when all its positions are set,
\* which is when they all are positions of elements added so far; a
\* membership test returns that.
ContainsIffAllBitsSet ==
    pc = "ready" =>
        /\ \A x \in Elements :
              /\ InFilter(x) <=> (\A p \in Positions(x) : bits[p])
              /\ InFilter(x) <=> (Positions(x) \subseteq AddedPositions)
        /\ last.op = "contains" =>
              last.ret = PyRepr(Positions(last.arg) \subseteq AddedPositions)

\* A test returned False for an element of which one position is set and
\* another is not.
ContainsIffAllBitsSetWitness ==
    /\ pc = "ready"
    /\ last.op = "contains"
    /\ last.ret = "False"
    /\ \E p \in Positions(last.arg) : bits[p]
    /\ \E p \in Positions(last.arg) : ~bits[p]

\* C14: for i in [0, k), _hash(x, i) is the integer of [0, m) congruent to
\* hash(x) + i * hash((x, "salt")) modulo m, also for negative hashes, and no
\* call raises IndexError.
HashInRange ==
    pc = "ready" =>
        /\ \A x \in Elements, i \in 0..(k - 1) :
              /\ _hash(x, i).err = "none"
              /\ _hash(x, i).val \in 0..(m - 1)
              /\ (_hash(x, i).val - (hash1[x] + i * hash2[x])) % m = 0
              /\ _hash(x, i).val = ((hash1[x] % m) + i * (hash2[x] % m)) % m
        /\ err # "IndexError"

\* An element of which both hashes are negative was added to a filter of
\* several bits and hash functions.
HashInRangeWitness ==
    /\ pc = "ready"
    /\ m > 2
    /\ k > 1
    /\ \E x \in added : hash1[x] < 0 /\ hash2[x] < 0
    /\ last.op = "contains"
    /\ last.ret = "True"

\* C15: no add and no membership test raises the out-of-range error of
\* _hash, whatever the element.
PublicApiNeverOutOfRange ==
    pc = "ready" =>
        /\ err # "ValueError"
        /\ \A x \in Elements :
              /\ AddLoop(bits, x, 0).err # "ValueError"
              /\ ContainsLoop(bits, x, 0).err # "ValueError"

\* Both elements were added, the last call being an add that returned, in a
\* filter of several hash functions.
PublicApiNeverOutOfRangeWitness ==
    /\ pc = "ready"
    /\ k > 1
    /\ added = Elements
    /\ last.op = "add"
    /\ err = "none"

\* C16: an add of x leaves true the bits that were true, sets the bits at
\* the positions of x and no other; these are at least 1 and at most k
\* positions.
AddFrame ==
    [][(pc = "ready" /\ last'.op = "add") =>
          LET P == Positions(last'.arg) IN
            /\ DOMAIN bits' = DOMAIN bits
            /\ \A i \in DOMAIN bits : bits'[i] <=> (bits[i] \/ i \in P)
            /\ 1 <= Cardinality(P) /\ Cardinality(P) <= k
            /\ Cardinality({i \in DOMAIN bits : bits'[i] /\ ~bits[i]}) <= k]_vars

\* The second element was added: its several positions are set, a bit of
\* the first element outside them is set, and some bit is unset.
AddFrameWitness ==
    /\ pc = "ready"
    /\ last.op = "add"
    /\ added = Elements
    /\ Cardinality(Positions(last.arg)) > 1
    /\ \E i \in DOMAIN bits : bits[i] /\ i \notin Positions(last.arg)
    /\ \E i \in DOMAIN bits : ~bits[i]

\* The list after add(x) then add(y) on the list b.
AddTwo(b, x, y) == AddLoop(AddLoop(b, x, 0).bits, y, 0).bits

\* C17: the bits are those at the positions of the set of elements added,
\* whatever the order and the number of the adds, and two adds commute.
AddOrderIndependent ==
    pc = "ready" =>
        /\ \A i \in DOMAIN bits : bits[i] <=> i \in AddedPositions
        /\ \A x, y \in Elements : AddTwo(bits, x, y) = AddTwo(bits, y, x)

\* Both elements, of different positions, were added to a filter in which
\* some bit stays unset.
AddOrderIndependentWitness ==
    /\ pc = "ready"
    /\ last.op = "add"
    /\ added = Elements
    /\ \E x, y \in Elements :
          /\ Positions(x) \ Positions(y) # {}
          /\ Positions(y) \ Positions(x) # {}
    /\ \E i \in DOMAIN bits : ~bits[i]

\* C18: a call of _hash with an index below 0 or not below k raises
\* ValueError, whatever the element, and no call of _hash changes the bits.
HashRejectsOutOfRange ==
    [][(pc = "ready" /\ last'.op = "_hash") =>
          /\ bits' = bits
          /\ (last'.i < 0 \/ last'.i >= k) =>
                (err' = "ValueError" /\ last'.ret = "None")]_vars

\* _hash raised on the index k in a filter that holds an element.
HashRejectsOutOfRangeWitness ==
    /\ pc = "ready"
    /\ last.op = "_hash"
    /\ last.i = k
    /\ err = "ValueError"
    /\ added # {}
    /\ \E j \in DOMAIN bits : bits[j]
====
